---- MODULE Spec2Model ----
(***************************************************************************)
(* Ephemeral chat relay: the connection lifecycle and broadcast fan-out of *)
(* the two servers of the repository.                                      *)
(*                                                                         *)
(*   server = "canon"     src/src/main.rs        (axum, htmx fragments)    *)
(*   server = "registry"  src/server/src/main.rs (warp, clients map)       *)
(*                                                                         *)
(* Init picks the server that runs; the sessions, the broadcast channel    *)
(* and the tasks of a connection are the state.  The runtime is            *)
(* multi-threaded (#[tokio::main]): the tasks of a connection run in       *)
(* parallel with each other and with the connection's handler, so a task   *)
(* is modelled at the granularity of its accesses to state it shares (the  *)
(* username cell, the broadcast channel, the outbound queue).  An access   *)
(* to state that only the task itself writes is taken in the same step as  *)
(* the access before it.  abort() stops a task that waits at an await at   *)
(* once and a task that is running when the await at the head of its loop  *)
(* is reached: an aborted task finishes at most the iteration it is in.    *)
(*                                                                         *)
(* The page served by the canonical server (src/src/html/index.rs) and the *)
(* browser client of the registry server (src/index) are followed as far   *)
(* as the numbering of the page's slots and the order of the client's      *)
(* calls need.                                                             *)
(***************************************************************************)
EXTENDS Naturals, Sequences, FiniteSets

\* ---------------------------------------------------------------- bounds
MaxFrames == 2          \* frames the server takes from all transports together
Capacity == 1           \* broadcast::channel capacity, scaled down from 128 / 64

\* The connections accepted during a run, by connection id (uuid).
Sessions == {1, 2}

None == "<None>"
Texts == {"alice", "hi", " "}

\* ------------------------------------------------------- inbound frames
\* A websocket frame as an inbound loop sees it.  A Text frame carries a
\* body: JSON of one of the shapes the two protocols know, with its string
\* payload in message, or text that is no such JSON ("junk").  "End" is the
\* end of the stream (None or Some(Err)), not a frame.
Shapes == {"message", "connect", "send", "notification", "ok", "error"}
Commands == {"connected", "help"}
Bodies ==
    [shape : Shapes, message : Texts]
        \cup {[shape |-> "message", message |-> ""]}
        \cup [shape : {"command"}, message : Commands]
JunkBody == [shape |-> "junk", message |-> ""]
Frames ==
    [kind : {"Text"}, body : Bodies \cup {JunkBody}]
        \cup [kind : {"Binary", "Ping", "Close", "End"}, body : {JunkBody}]

\* serde_json::from_str::<WebsocketMessage>: an object with a string field
\* "message".
from_str_WebsocketMessage(body) ==
    IF body.shape = "message"
    THEN [ok |-> TRUE, message |-> body.message]
    ELSE [ok |-> FALSE, message |-> ""]

\* ------------------------------------------------------------- events
\* BroadcastEvent (canonical) and the broadcast ClientCall payloads
\* (registry: Connection = Join, Disconnection = Leave, PushMessage =
\* Message).  src is a history field: the session whose frame or teardown
\* published the event.
BroadcastEvent(event, sender, content, src) ==
    [event |-> event, sender |-> sender, content |-> content, src |-> src]

NoPay == BroadcastEvent("Ok", None, None, 0)

WELCOME_MESSAGES_len == 2

\* hanndle_command, "connected": no command runs.  by is the client that
\* sent the command, todo the entries of clients_lock.iter() still to visit,
\* names the usernames pushed so far (with the client they belong to);
\* snaps is a history field: the sets of named clients in the registry that
\* have existed since the command took its read lock.
NoCmd == [pc |-> "idle", by |-> 0, todo |-> {}, names |-> {}, snaps |-> {}]

\* The browser client after Content::create: no username, an empty
\* channel to the task that writes to the websocket, which is still
\* connecting.  username is Content.username; tx is what is queued on
\* WebSocketService.tx; call is the call the writing task has taken from
\* the channel and holds in ws_tx.send ("none": it waits at rx.next()); ws
\* is the state of the websocket.
\* History fields: handed, the calls the writing task has taken, in order;
\* sent, the calls written to an open websocket, in order; submits, the
\* Message::Send updates so far; failed, the try_send calls that returned
\* Err.
NoApp ==
    [username |-> None, tx |-> <<>>, call |-> [call |-> "none", arg |-> ""],
     ws |-> "connecting",
     handed |-> <<>>, sent |-> <<>>, submits |-> 0, failed |-> 0]

VARIABLES
    server,     \* which server runs
    bus,        \* every event sent on the broadcast channel, in send order
    frames,     \* frames taken from the transports so far
    hpc,        \* handle_socket: position
    hname,      \* handle_socket: the username read at teardown
    username,   \* the session's username (canonical: the cell; registry: Client.username)
    pos,        \* index in bus of the next event of the session's receiver
    sock,       \* what was written to the session's transport, in order
    inpc,       \* inbound task: position
    inab,       \* inbound task: abort() was called on it while it was running
    inmsg,      \* inbound task: message text of the frame being processed
    inpay,      \* inbound task: payload built for broadcast_tx.send
    fwpc,       \* forwarder task: position
    fwab,       \* forwarder task: abort() was called on it while it was running
    fwmsg,      \* forwarder task: index in bus of the event received
    counter,    \* forwarder task: counter
    wfail,      \* canonical: socket_tx.send has returned Err for the session
    clients,    \* registry: keys of the clients map
    outq,       \* registry: the session's unbounded outbound queue (tx / rx)
    txpc,       \* registry: client_transmit: position
    removes,    \* history: times clients.remove ran for the session
    cmd,        \* registry: the `connected` command in progress
    nbad,       \* history: frames of the session that were not text or did not parse
    joinedAt,   \* history: Len(bus) when the session's username was set, kept
                \* while the session's receiver can still yield such an event
    page,       \* canonical: the browser page that opened the connection,
                \* named by the first connection it opened (0: not open yet)
    app         \* the browser client of src/index: Content and its
                \* WebSocketService

hV == <<hpc, hname>>
inV == <<inpc, inab, inmsg, inpay>>
fwV == <<fwpc, fwab, fwmsg, counter, wfail>>
regV == <<clients, outq, txpc, removes, cmd>>

vars == <<server, bus, frames, hV, username, pos, sock, inV, fwV, regV, nbad,
          joinedAt, page, app>>

Init ==
    /\ server \in {"canon", "registry"}
    /\ bus = <<>>
    /\ frames = 0
    /\ hpc = [s \in Sessions |-> "idle"]
    /\ hname = [s \in Sessions |-> None]
    /\ username = [s \in Sessions |-> None]
    /\ pos = [s \in Sessions |-> 0]
    /\ sock = [s \in Sessions |-> <<>>]
    /\ inpc = [s \in Sessions |-> "off"]
    /\ inab = [s \in Sessions |-> FALSE]
    /\ inmsg = [s \in Sessions |-> ""]
    /\ inpay = [s \in Sessions |-> NoPay]
    /\ fwpc = [s \in Sessions |-> "off"]
    /\ fwab = [s \in Sessions |-> FALSE]
    /\ fwmsg = [s \in Sessions |-> 0]
    /\ counter = [s \in Sessions |-> 0]
    /\ wfail = [s \in Sessions |-> FALSE]
    /\ clients = {}
    /\ outq = [s \in Sessions |-> <<>>]
    /\ txpc = [s \in Sessions |-> "off"]
    /\ removes = [s \in Sessions |-> 0]
    /\ cmd = NoCmd
    /\ nbad = [s \in Sessions |-> 0]
    /\ joinedAt = [s \in Sessions |-> 0]
    /\ page = [s \in Sessions |-> 0]
    /\ app = NoApp

\* ------------------------------------------------- broadcast channel
\* tokio::sync::broadcast: a receiver that is more than Capacity events
\* behind has lost its oldest events, and its next recv returns Lagged.
Unread(s) == Len(bus) + 1 - pos[s]
Lagging(s) == Unread(s) > Capacity

\* ===================================================== canonical server
\* The connection t of a page is over: its handler has returned and both
\* its tasks, which own the halves of the socket, have ended.  The page
\* (index.rs: hx-ext="ws" ws-connect="/ws") then connects again.
Closed(t) ==
    /\ page[t] = t
    /\ hpc[t] = "done"
    /\ inpc[t] \in {"done", "dead"}
    /\ fwpc[t] \in {"done", "dead"}

\* handle_socket, up to the select!: subscribe, create the username cell,
\* spawn the two tasks.  The connection is opened by a page of its own or
\* by a page whose earlier connection is over.
handle_socket_start(s) ==
    /\ server = "canon"
    /\ hpc[s] = "idle"
    /\ \E p \in {s} \cup {t \in Sessions : Closed(t)} :
           page' = [page EXCEPT ![s] = p]
    /\ pos' = [pos EXCEPT ![s] = Len(bus) + 1]
    /\ hpc' = [hpc EXCEPT ![s] = "select"]
    /\ inpc' = [inpc EXCEPT ![s] = "next"]
    /\ fwpc' = [fwpc EXCEPT ![s] = "recv"]
    /\ counter' = [counter EXCEPT ![s] = WELCOME_MESSAGES_len]
    /\ UNCHANGED <<server, app, bus, frames, hname, username, sock, inab, inmsg,
                   inpay, fwab, fwmsg, wfail, regV, nbad, joinedAt>>

\* An inbound task without the test for an empty message: an empty text
\* goes on as a name or as a chat message.
socket_listen_next_keeps_empty(s, f) ==
    /\ server = "canon"
    /\ inpc[s] = "next"
    /\ IF f.kind = "End"
       THEN /\ inpc' = [inpc EXCEPT ![s] = "done"]
            /\ UNCHANGED <<frames, nbad, inmsg, inpay>>
       ELSE
       /\ frames < MaxFrames
       /\ frames' = frames + 1
       /\ IF f.kind # "Text"
          THEN \* while let Some(Ok(Message::Text(_))) fails: the loop ends
               /\ inpc' = [inpc EXCEPT ![s] = "done"]
               /\ nbad' = [nbad EXCEPT ![s] = @ + 1]
               /\ UNCHANGED <<inmsg, inpay>>
          ELSE LET m == from_str_WebsocketMessage(f.body) IN
               IF ~m.ok
               THEN \* continue
                    /\ nbad' = [nbad EXCEPT ![s] = IF m.ok THEN @ ELSE @ + 1]
                    /\ UNCHANGED <<inpc, inmsg, inpay>>
               ELSE /\ UNCHANGED nbad
                    /\ inmsg' = [inmsg EXCEPT ![s] = m.message]
                    /\ IF username[s] # None
                       THEN /\ inpay' = [inpay EXCEPT ![s] =
                                   BroadcastEvent("Message", username[s], m.message, s)]
                            /\ inpc' = [inpc EXCEPT ![s] = "send"]
                       ELSE /\ inpc' = [inpc EXCEPT ![s] = "write"]
                            /\ UNCHANGED inpay
    /\ UNCHANGED <<server, page, app, bus, hV, username, pos, sock, inab,
                   fwV, regV,
                   joinedAt>>

\* socket_listen: socket_rx.next() yields a frame; parse and filter it, then
\* username.read().await.clone() and the branch on it.  The username cell
\* of a session is written by this task only, so the read is taken in the
\* same step as the frame.
socket_listen_next(s, f) ==
    /\ server = "canon"
    /\ inpc[s] = "next"
    /\ IF f.kind = "End"
       THEN /\ inpc' = [inpc EXCEPT ![s] = "done"]
            /\ UNCHANGED <<frames, nbad, inmsg, inpay>>
       ELSE
       /\ frames < MaxFrames
       /\ frames' = frames + 1
       /\ IF f.kind # "Text"
          THEN \* while let Some(Ok(Message::Text(_))) fails: the loop ends
               /\ inpc' = [inpc EXCEPT ![s] = "done"]
               /\ nbad' = [nbad EXCEPT ![s] = @ + 1]
               /\ UNCHANGED <<inmsg, inpay>>
          ELSE LET m == from_str_WebsocketMessage(f.body) IN
               IF ~m.ok \/ m.message = ""
               THEN \* continue
                    /\ nbad' = [nbad EXCEPT ![s] = IF m.ok THEN @ ELSE @ + 1]
                    /\ UNCHANGED <<inpc, inmsg, inpay>>
               ELSE /\ UNCHANGED nbad
                    /\ inmsg' = [inmsg EXCEPT ![s] = m.message]
                    /\ IF username[s] # None
                       THEN /\ inpay' = [inpay EXCEPT ![s] =
                                   BroadcastEvent("Message", username[s], m.message, s)]
                            /\ inpc' = [inpc EXCEPT ![s] = "send"]
                       ELSE /\ inpc' = [inpc EXCEPT ![s] = "write"]
                            /\ UNCHANGED inpay
    /\ UNCHANGED <<server, page, app, bus, hV, username, pos, sock, inab,
                   fwV, regV,
                   joinedAt>>

\* An inbound task that sets the username and then sends the first text on
\* as a chat message of that name.
socket_listen_write_as_message(s) ==
    /\ server = "canon"
    /\ inpc[s] = "write"
    /\ username' = [username EXCEPT ![s] = inmsg[s]]
    /\ joinedAt' = [joinedAt EXCEPT ![s] =
            IF fwpc[s] = "read" \/ (fwpc[s] = "recv" /\ Unread(s) > 0)
            THEN Len(bus) ELSE 0]
    /\ inpay' = [inpay EXCEPT ![s] =
            BroadcastEvent("Message", inmsg[s], inmsg[s], s)]
    /\ inpc' = [inpc EXCEPT ![s] = "send"]
    /\ UNCHANGED <<server, page, app, bus, frames, hV, pos, sock, inab,
                   inmsg, fwV, regV,
                   nbad>>

\* socket_listen: username.write().await.replace(message.clone())
socket_listen_write(s) ==
    /\ server = "canon"
    /\ inpc[s] = "write"
    /\ username' = [username EXCEPT ![s] = inmsg[s]]
    /\ joinedAt' = [joinedAt EXCEPT ![s] =
            IF fwpc[s] = "read" \/ (fwpc[s] = "recv" /\ Unread(s) > 0)
            THEN Len(bus) ELSE 0]
    /\ inpay' = [inpay EXCEPT ![s] = BroadcastEvent("Join", None, inmsg[s], s)]
    /\ inpc' = [inpc EXCEPT ![s] = "send"]
    /\ UNCHANGED <<server, page, app, bus, frames, hV, pos, sock, inab,
                   inmsg, fwV, regV,
                   nbad>>

\* socket_listen: broadcast_tx.send(payload), then back to the loop head,
\* where the task stops if it was aborted meanwhile.
socket_listen_send(s) ==
    /\ server = "canon"
    /\ inpc[s] = "send"
    /\ bus' = Append(bus, inpay[s])
    /\ inpay' = [inpay EXCEPT ![s] = NoPay]
    /\ inmsg' = [inmsg EXCEPT ![s] = ""]
    /\ inpc' = [inpc EXCEPT ![s] = IF inab[s] THEN "dead" ELSE "next"]
    /\ inab' = [inab EXCEPT ![s] = FALSE]
    /\ UNCHANGED <<server, page, app, frames, hV, username, pos, sock, fwV,
                   regV, nbad,
                   joinedAt>>

\* forwarder: broadcast_rx.recv().await
broadcast_recieve_recv(s) ==
    /\ server = "canon"
    /\ fwpc[s] = "recv"
    /\ IF Lagging(s)
       THEN \* Err(Lagged): while let Ok(_) fails, the task finishes
            /\ pos' = [pos EXCEPT ![s] = 0]
            /\ fwpc' = [fwpc EXCEPT ![s] = "done"]
            /\ joinedAt' = [joinedAt EXCEPT ![s] = 0]
            /\ UNCHANGED fwmsg
       ELSE /\ Unread(s) > 0
            /\ fwmsg' = [fwmsg EXCEPT ![s] = pos[s]]
            /\ pos' = [pos EXCEPT ![s] = pos[s] + 1]
            /\ fwpc' = [fwpc EXCEPT ![s] = "read"]
            /\ UNCHANGED joinedAt
    /\ UNCHANGED <<server, page, app, bus, frames, hV, username, sock, inV,
                   fwab,
                   counter, wfail, regV, nbad>>

\* The frame the forwarder writes: the event received (seq is its index in
\* bus), rendered by into_htmx with the counter as its index.  early is a
\* history field: the event was sent on the bus before the session's
\* username was set.
Written(s) ==
    [seq |-> fwmsg[s], index |-> counter[s], early |-> fwmsg[s] <= joinedAt[s]]

\* The forwarder back at the head of its loop: it stops there if it was
\* aborted meanwhile, and its receiver is dropped with it.
broadcast_recieve_loop(s) ==
    /\ fwmsg' = [fwmsg EXCEPT ![s] = 0]
    /\ fwpc' = [fwpc EXCEPT ![s] = IF fwab[s] THEN "dead" ELSE "recv"]
    /\ fwab' = [fwab EXCEPT ![s] = FALSE]
    /\ pos' = [pos EXCEPT ![s] = IF fwab[s] THEN 0 ELSE @]
    /\ joinedAt' = [joinedAt EXCEPT ![s] = IF fwab[s] \/ pos[s] > @ THEN 0 ELSE @]

\* A forwarder that does not advance its counter.
broadcast_recieve_forward_same_index(s) ==
    /\ server = "canon"
    /\ fwpc[s] = "read"
    /\ IF username[s] # None
       THEN sock' = [sock EXCEPT ![s] = Append(@, Written(s))]
       ELSE UNCHANGED sock
    /\ broadcast_recieve_loop(s)
    /\ UNCHANGED <<server, page, app, bus, frames, hV, username, inV, regV,
                   nbad, counter,
                   wfail>>

\* A forwarder without the gate on the username: every event received is
\* written.
broadcast_recieve_forward_ungated(s) ==
    /\ server = "canon"
    /\ fwpc[s] = "read"
    /\ sock' = [sock EXCEPT ![s] = Append(@, Written(s))]
    /\ counter' = [counter EXCEPT ![s] = @ + 1]
    /\ broadcast_recieve_loop(s)
    /\ UNCHANGED <<server, page, app, bus, frames, hV, username, inV, regV,
                   nbad, wfail>>

\* A forwarder that does not echo a session's own events back to it.
broadcast_recieve_forward_noecho(s) ==
    /\ server = "canon"
    /\ fwpc[s] = "read"
    /\ IF username[s] # None /\ bus[fwmsg[s]].src # s
       THEN /\ sock' = [sock EXCEPT ![s] = Append(@, Written(s))]
            /\ counter' = [counter EXCEPT ![s] = @ + 1]
       ELSE UNCHANGED <<sock, counter>>
    /\ broadcast_recieve_loop(s)
    /\ UNCHANGED <<server, page, app, bus, frames, hV, username, inV, regV,
                   nbad, wfail>>

\* A forwarder that writes chat messages only and drops Join and Leave.
broadcast_recieve_forward_chat_only(s) ==
    /\ server = "canon"
    /\ fwpc[s] = "read"
    /\ IF username[s] # None /\ bus[fwmsg[s]].event = "Message"
       THEN /\ sock' = [sock EXCEPT ![s] = Append(@, Written(s))]
            /\ counter' = [counter EXCEPT ![s] = @ + 1]
       ELSE UNCHANGED <<sock, counter>>
    /\ broadcast_recieve_loop(s)
    /\ UNCHANGED <<server, page, app, bus, frames, hV, username, inV, regV,
                   nbad, wfail>>

\* A forwarder that writes the newest event ahead of the ones written
\* before it.
broadcast_recieve_forward_newest_first(s) ==
    /\ server = "canon"
    /\ fwpc[s] = "read"
    /\ IF username[s] # None
       THEN /\ sock' = [sock EXCEPT ![s] = <<Written(s)>> \o @]
            /\ counter' = [counter EXCEPT ![s] = @ + 1]
       ELSE UNCHANGED <<sock, counter>>
    /\ broadcast_recieve_loop(s)
    /\ UNCHANGED <<server, page, app, bus, frames, hV, username, inV, regV,
                   nbad, wfail>>

\* forwarder: username.read().await.clone(), the gate on it, and
\* socket_tx.send(message.into_htmx(counter)); counter += 1.  The transport
\* is written by this task only, so the write is taken in the same step as
\* the read of the username.  The write can fail; a transport that has
\* failed fails every later write.
broadcast_recieve_forward(s) ==
    /\ server = "canon"
    /\ fwpc[s] = "read"
    /\ IF username[s] # None
       THEN \E ok \in (IF wfail[s] THEN {FALSE} ELSE BOOLEAN) :
                \* Err(e) is logged and the loop goes on
                /\ sock' = [sock EXCEPT ![s] = IF ok THEN Append(@, Written(s)) ELSE @]
                /\ wfail' = [wfail EXCEPT ![s] = ~ok]
                /\ counter' = [counter EXCEPT ![s] = @ + 1]
       ELSE UNCHANGED <<sock, counter, wfail>>
    /\ broadcast_recieve_loop(s)
    /\ UNCHANGED <<server, page, app, bus, frames, hV, username, inV, regV,
                   nbad>>

\* handle_socket: tokio::select! on the two join handles; the branch of a
\* finished task aborts the other task.
handle_socket_select(s) ==
    /\ server = "canon"
    /\ hpc[s] = "select"
    /\ \/ /\ inpc[s] = "done"
          /\ fwpc' = [fwpc EXCEPT ![s] = IF @ = "recv" THEN "dead" ELSE @]
          /\ fwab' = [fwab EXCEPT ![s] = fwpc[s] = "read"]
          /\ pos' = [pos EXCEPT ![s] = IF fwpc[s] = "recv" THEN 0 ELSE @]
          /\ joinedAt' = [joinedAt EXCEPT ![s] = IF fwpc[s] = "recv" THEN 0 ELSE @]
          /\ UNCHANGED <<inpc, inab>>
       \/ /\ fwpc[s] = "done"
          /\ inpc' = [inpc EXCEPT ![s] = IF @ = "next" THEN "dead" ELSE @]
          /\ inab' = [inab EXCEPT ![s] = inpc[s] \in {"write", "send"}]
          /\ UNCHANGED <<fwpc, fwab, pos, joinedAt>>
    /\ hpc' = [hpc EXCEPT ![s] = "read"]
    /\ UNCHANGED <<server, page, app, bus, frames, hname, username, sock,
                   inmsg, inpay,
                   fwmsg, counter, wfail, regV, nbad>>

\* A teardown without the test on the username: a Leave is sent for a
\* session that never had a name as well.
handle_socket_read_always_leave(s) ==
    /\ server = "canon"
    /\ hpc[s] = "read"
    /\ hname' = [hname EXCEPT ![s] = username[s]]
    /\ hpc' = [hpc EXCEPT ![s] = "leave"]
    /\ UNCHANGED <<server, page, app, bus, frames, username, pos, sock, inV,
                   fwV, regV,
                   nbad, joinedAt>>

\* handle_socket: username.read().await.clone() after the select!
handle_socket_read(s) ==
    /\ server = "canon"
    /\ hpc[s] = "read"
    /\ hname' = [hname EXCEPT ![s] = username[s]]
    /\ hpc' = [hpc EXCEPT ![s] = IF username[s] # None THEN "leave" ELSE "done"]
    /\ UNCHANGED <<server, page, app, bus, frames, username, pos, sock, inV,
                   fwV, regV,
                   nbad, joinedAt>>

\* A teardown that stays where it is after it has sent the Leave, so that
\* it sends it again.
handle_socket_leave_again(s) ==
    /\ server = "canon"
    /\ hpc[s] = "leave"
    /\ bus' = Append(bus, BroadcastEvent("Leave", None, hname[s], s))
    /\ UNCHANGED <<server, page, app, frames, hV, username, pos, sock, inV,
                   fwV, regV,
                   nbad, joinedAt>>

\* handle_socket: broadcast_tx.send(Leave)
handle_socket_leave(s) ==
    /\ server = "canon"
    /\ hpc[s] = "leave"
    /\ bus' = Append(bus, BroadcastEvent("Leave", None, hname[s], s))
    /\ hpc' = [hpc EXCEPT ![s] = "done"]
    /\ UNCHANGED <<server, page, app, frames, hname, username, pos, sock,
                   inV, fwV, regV,
                   nbad, joinedAt>>

NextCanon ==
    \E s \in Sessions :
        \/ handle_socket_start(s)
        \/ \E f \in Frames : socket_listen_next(s, f)
        \/ socket_listen_write(s)
        \/ socket_listen_send(s)
        \/ broadcast_recieve_recv(s)
        \/ broadcast_recieve_forward(s)
        \/ handle_socket_select(s)
        \/ handle_socket_read(s)
        \/ handle_socket_leave(s)

\* ====================================================== registry server
\* In this server every iteration of a task is one step: an iteration of
\* the inbound loop runs process_call under the client's lock, and the
\* forwarder's receiver is its own.
\*
\* process_client_messages: the text a frame is turned into before it is
\* parsed: to_str() of a text frame, else a canned JSON text.
frame_text(f) ==
    CASE f.kind = "Text" -> f.body
      [] f.kind = "Ping" -> [shape |-> "ok", message |-> "Pong"]
      [] f.kind = "Close" -> [shape |-> "notification", message |-> "Goodbye"]
      [] OTHER -> [shape |-> "notification", message |-> "Non-text call"]

\* serde_json::from_str::<ServerCall>, and the Err arm that turns a parse
\* failure into ServerCall::Error.
from_str_ServerCall(body) ==
    IF body.shape \in {"connect", "send", "command", "notification", "ok", "error"}
    THEN [call |-> body.shape, arg |-> body.message, parsed |-> TRUE]
    ELSE [call |-> "error", arg |-> "Failed to parse json", parsed |-> FALSE]

\* process_call: the variant of the ClientCall returned for a call.
process_call_response(call, named) ==
    CASE call.call = "connect" -> "Ok"
      [] call.call = "send" -> IF named THEN "Ok" ELSE "Error"
      [] call.call = "command" -> "Notification"
      [] call.call = "notification" -> "Notification"
      [] call.call = "ok" -> "Ok"
      [] OTHER -> "Error"

\* process_call: the text of the ClientCall::Error returned for a call:
\* the server's own for a Send without a username, the call's for an Error
\* sent back (the parse failure among them).  The texts of Ok and
\* Notification are not followed.
process_call_text(call, named) ==
    CASE call.call = "send" /\ ~named -> "Client not connected with username"
      [] call.call = "error" -> call.arg
      [] OTHER -> ""

\* A process_call whose Send does not look at the username: the message
\* is published with whatever the username is.
process_call_publish_unchecked(call, s) ==
    CASE call.call = "connect" ->
            <<BroadcastEvent("Join", None, call.arg, s)>>
      [] call.call = "send" ->
            <<BroadcastEvent("Message", username[s], call.arg, s)>>
      [] OTHER -> <<>>

\* process_call: what the call sends on the broadcast channel.
process_call_publish(call, s) ==
    CASE call.call = "connect" ->
            <<BroadcastEvent("Join", None, call.arg, s)>>
      [] call.call = "send" /\ username[s] # None ->
            <<BroadcastEvent("Message", username[s], call.arg, s)>>
      [] OTHER -> <<>>

\* tx.send(item) on the session's outbound queue: it fails, and the item
\* is lost, once the receiving half went with client_transmit.
tx_send(s, item) ==
    IF txpc[s] = "run" THEN [outq EXCEPT ![s] = Append(@, item)] ELSE outq

\* The filter of the websocket route: broadcast_tx.subscribe() when the
\* request arrives, before the upgrade runs handle_socket.
server_route_subscribe(s) ==
    /\ server = "registry"
    /\ hpc[s] = "idle"
    /\ pos' = [pos EXCEPT ![s] = Len(bus) + 1]
    /\ hpc' = [hpc EXCEPT ![s] = "upgrade"]
    /\ UNCHANGED <<server, page, app, bus, frames, hname, username, sock,
                   inV, fwV, regV,
                   nbad, joinedAt>>

\* A handler that spawns its tasks without queueing the Uuid payload
\* first.
server_handle_socket_start_no_uuid(s) ==
    /\ server = "registry"
    /\ hpc[s] = "upgrade"
    /\ clients' = clients \cup {s}
    /\ txpc' = [txpc EXCEPT ![s] = "run"]
    /\ fwpc' = [fwpc EXCEPT ![s] = "recv"]
    /\ inpc' = [inpc EXCEPT ![s] = "next"]
    /\ hpc' = [hpc EXCEPT ![s] = "select"]
    /\ UNCHANGED <<server, page, app, bus, frames, hname, username, pos,
                   sock, inab, inmsg,
                   inpay, fwab, fwmsg, counter, wfail, removes, nbad, joinedAt,
                   cmd, outq>>

\* handle_socket, up to the select!: insert the client into the map, queue
\* the Uuid payload, spawn the three tasks.
server_handle_socket_start(s) ==
    /\ server = "registry"
    /\ hpc[s] = "upgrade"
    /\ clients' = clients \cup {s}
    /\ outq' = [outq EXCEPT ![s] = Append(@, [t |-> "Uuid", seq |-> 0])]
    /\ txpc' = [txpc EXCEPT ![s] = "run"]
    /\ fwpc' = [fwpc EXCEPT ![s] = "recv"]
    /\ inpc' = [inpc EXCEPT ![s] = "next"]
    /\ hpc' = [hpc EXCEPT ![s] = "select"]
    /\ UNCHANGED <<server, page, app, bus, frames, hname, username, pos,
                   sock, inab, inmsg,
                   inpay, fwab, fwmsg, counter, wfail, removes, nbad, joinedAt,
                   cmd>>

\* client_transmit: rx.forward(sender) moves the head of the queue to the
\* transport; a failed write ends the task, and the queue goes with it.
client_transmit(s, ok) ==
    /\ server = "registry"
    /\ txpc[s] = "run"
    /\ outq[s] # <<>>
    /\ IF ok
       THEN /\ sock' = [sock EXCEPT ![s] = Append(@, Head(outq[s]))]
            /\ outq' = [outq EXCEPT ![s] = Tail(@)]
            /\ UNCHANGED txpc
       ELSE /\ txpc' = [txpc EXCEPT ![s] = "done"]
            /\ outq' = [outq EXCEPT ![s] = <<>>]
            /\ UNCHANGED sock
    /\ UNCHANGED <<server, page, app, bus, frames, hV, username, pos, inV,
                   fwV, clients,
                   removes, nbad, joinedAt,
                   cmd>>

\* broadcast_recieve: broadcast_rx.next().await, then tx.send of the event.
server_broadcast_recieve(s) ==
    /\ server = "registry"
    /\ fwpc[s] = "recv"
    /\ IF Lagging(s)
       THEN \* Some(Err(Lagged)): while let Some(Ok(_)) fails, the task finishes
            /\ pos' = [pos EXCEPT ![s] = 0]
            /\ fwpc' = [fwpc EXCEPT ![s] = "done"]
            /\ UNCHANGED outq
       ELSE /\ Unread(s) > 0
            /\ outq' = tx_send(s, [t |-> "Event", seq |-> pos[s]])
            /\ pos' = [pos EXCEPT ![s] = pos[s] + 1]
            /\ UNCHANGED fwpc
    /\ UNCHANGED <<server, page, app, bus, frames, hV, username, sock, inV,
                   fwab, fwmsg,
                   counter, wfail, clients, txpc, removes, nbad, joinedAt,
                   cmd>>

\* process_client_messages: reciever.next() yields a frame; it is turned
\* into text and parsed, process_call runs, and the response is sent on
\* tx.  Connect sets the username and sends the Connection while it holds
\* the client's write lock; Send reads the username and sends the
\* PushMessage while it holds the read lock.
process_client_messages(s, f) ==
    /\ server = "registry"
    /\ inpc[s] = "next"
    /\ IF f.kind = "End"
       THEN /\ inpc' = [inpc EXCEPT ![s] = "done"]
            /\ UNCHANGED <<frames, nbad, username, bus, outq>>
       ELSE LET call == from_str_ServerCall(frame_text(f)) IN
            /\ frames < MaxFrames
            /\ frames' = frames + 1
            /\ nbad' = [nbad EXCEPT ![s] =
                    IF f.kind # "Text" \/ ~call.parsed THEN @ + 1 ELSE @]
            /\ username' = [username EXCEPT ![s] =
                    IF call.call = "connect" THEN call.arg ELSE @]
            /\ bus' = bus \o process_call_publish(call, s)
            /\ outq' = tx_send(s, [t |-> process_call_response(call, username[s] # None),
                                   seq |-> 0,
                                   text |-> process_call_text(call, username[s] # None)])
            /\ UNCHANGED inpc
    /\ UNCHANGED <<server, page, app, hV, pos, sock, inab, inmsg, inpay, fwV,
                   clients,
                   txpc, removes, joinedAt,
                   cmd>>

\* handle_socket: tokio::select! on the three join handles; the branch of
\* a finished task aborts the other two.  The receiver of the broadcast
\* channel and the receiving half of the queue go with their tasks.
server_handle_socket_select(s) ==
    /\ server = "registry"
    /\ hpc[s] = "select"
    /\ "done" \in {txpc[s], fwpc[s], inpc[s]}
    /\ txpc' = [txpc EXCEPT ![s] = "dead"]
    /\ fwpc' = [fwpc EXCEPT ![s] = "dead"]
    /\ inpc' = [inpc EXCEPT ![s] = "dead"]
    /\ pos' = [pos EXCEPT ![s] = 0]
    /\ outq' = [outq EXCEPT ![s] = <<>>]
    /\ hpc' = [hpc EXCEPT ![s] = "leave"]
    /\ UNCHANGED <<server, page, app, bus, frames, hname, username, sock,
                   inab, inmsg,
                   inpay, fwab, fwmsg, counter, wfail, clients, removes, nbad,
                   joinedAt,
                   cmd>>

\* handle_socket: client.write().await.username.clone() and, if it is Some,
\* broadcast_tx.send(Disconnection), all while the write lock is held.
server_handle_socket_leave(s) ==
    /\ server = "registry"
    /\ hpc[s] = "leave"
    /\ hname' = [hname EXCEPT ![s] = username[s]]
    /\ bus' = IF username[s] # None
              THEN Append(bus, BroadcastEvent("Leave", None, username[s], s))
              ELSE bus
    /\ hpc' = [hpc EXCEPT ![s] = "remove"]
    /\ UNCHANGED <<server, page, app, frames, username, pos, sock, inV, fwV,
                   regV, nbad,
                   joinedAt>>

\* A teardown that leaves the client's entry in the registry.
server_handle_socket_remove_keep(s) ==
    /\ server = "registry"
    /\ hpc[s] = "remove"
    /\ removes' = [removes EXCEPT ![s] = @ + 1]
    /\ hpc' = [hpc EXCEPT ![s] = "done"]
    /\ UNCHANGED <<server, page, app, bus, frames, hname, username, pos,
                   sock, inV, fwV,
                   clients, outq, txpc, nbad, joinedAt,
                   cmd>>

\* handle_socket: clients.write().await.remove(&uuid)
server_handle_socket_remove(s) ==
    /\ server = "registry"
    /\ hpc[s] = "remove"
    /\ clients' = clients \ {s}
    /\ removes' = [removes EXCEPT ![s] = @ + 1]
    /\ hpc' = [hpc EXCEPT ![s] = "done"]
    /\ UNCHANGED <<server, page, app, bus, frames, hname, username, pos,
                   sock, inV, fwV,
                   outq, txpc, nbad, joinedAt,
                   cmd>>

NextRegistry ==
    \E s \in Sessions :
        \/ server_route_subscribe(s)
        \/ server_handle_socket_start(s)
        \/ \E ok \in BOOLEAN : client_transmit(s, ok)
        \/ server_broadcast_recieve(s)
        \/ \E f \in Frames : process_client_messages(s, f)
        \/ server_handle_socket_select(s)
        \/ server_handle_socket_leave(s)
        \/ server_handle_socket_remove(s)

Next == NextCanon \/ NextRegistry

Spec == Init /\ [][Next]_vars

\* The canonical server alone, under fair scheduling of its tasks and
\* handlers: the runtime runs every task that is ready.  The arrival of
\* frames is the environment's and is not fair.
InitCanon == Init /\ server = "canon"

FairCanon ==
    /\ InitCanon
    /\ [][NextCanon]_vars
    /\ \A s \in Sessions :
        /\ WF_vars(socket_listen_write(s))
        /\ WF_vars(socket_listen_send(s))
        /\ WF_vars(broadcast_recieve_recv(s))
        /\ WF_vars(broadcast_recieve_forward(s))
        /\ WF_vars(handle_socket_select(s))
        /\ WF_vars(handle_socket_read(s))
        /\ WF_vars(handle_socket_leave(s))

\* ============================ registry server: the `connected` command
\* The registry, the clients' usernames and the command at the grain of
\* the locks it takes: the read lock on clients for the whole loop, and a
\* read lock on one client at a time inside it.  Three clients are followed,
\* and one run of the command.  The tasks of the clients are left out but
\* for the calls that write what the command reads.
Uuids == {1, 2, 3}

\* The named clients in a registry: the set the command is to report.
NamedIn(cl, un) == {<<c, un[c]>> : c \in {d \in cl : un[d] # None}}

InitConnected ==
    /\ server = "registry"
    /\ bus = <<>>
    /\ frames = 0
    /\ hpc = [c \in Uuids |-> "idle"]
    /\ hname = [c \in Uuids |-> None]
    /\ username = [c \in Uuids |-> None]
    /\ clients = {}
    /\ removes = [c \in Uuids |-> 0]
    /\ cmd = NoCmd
    /\ pos = [s \in Sessions |-> 0]
    /\ sock = [s \in Sessions |-> <<>>]
    /\ inpc = [s \in Sessions |-> "off"]
    /\ inab = [s \in Sessions |-> FALSE]
    /\ inmsg = [s \in Sessions |-> ""]
    /\ inpay = [s \in Sessions |-> NoPay]
    /\ fwpc = [s \in Sessions |-> "off"]
    /\ fwab = [s \in Sessions |-> FALSE]
    /\ fwmsg = [s \in Sessions |-> 0]
    /\ counter = [s \in Sessions |-> 0]
    /\ wfail = [s \in Sessions |-> FALSE]
    /\ outq = [s \in Sessions |-> <<>>]
    /\ txpc = [s \in Sessions |-> "off"]
    /\ nbad = [s \in Sessions |-> 0]
    /\ joinedAt = [s \in Sessions |-> 0]
    /\ page = [s \in Sessions |-> 0]
    /\ app = NoApp

\* handle_socket: clients.write().await.insert(uuid, client); the write
\* lock waits for the command's read lock.
connected_insert(c) ==
    /\ server = "registry"
    /\ cmd.pc # "iter"
    /\ hpc[c] = "idle"
    /\ clients' = clients \cup {c}
    /\ hpc' = [hpc EXCEPT ![c] = "select"]
    /\ UNCHANGED <<server, page, app, bus, frames, hname, username, pos,
                   sock, inV, fwV,
                   outq, txpc, removes, cmd, nbad, joinedAt>>

\* process_call, ServerCall::Connect, sent by a client other than the one
\* whose command is running: under the client's write lock.
connected_connect(c, name) ==
    /\ server = "registry"
    /\ hpc[c] = "select"
    /\ ~(cmd.pc = "iter" /\ cmd.by = c)
    /\ frames < MaxFrames
    /\ frames' = frames + 1
    /\ username' = [username EXCEPT ![c] = name]
    /\ bus' = Append(bus, BroadcastEvent("Join", None, name, c))
    /\ cmd' = IF cmd.pc = "iter"
              THEN [cmd EXCEPT !.snaps = @ \cup {NamedIn(clients, username')}]
              ELSE cmd
    /\ UNCHANGED <<server, page, app, hV, pos, sock, inV, fwV, clients, outq,
                   txpc,
                   removes, nbad, joinedAt>>

\* hanndle_command: clients.read().await
hanndle_command_lock(c) ==
    /\ server = "registry"
    /\ cmd.pc = "idle"
    /\ hpc[c] = "select"
    /\ cmd' = [pc |-> "iter", by |-> c, todo |-> clients, names |-> {},
               snaps |-> {NamedIn(clients, username)}]
    /\ UNCHANGED <<server, page, app, bus, frames, hV, username, pos, sock,
                   inV, fwV,
                   clients, outq, txpc, removes, nbad, joinedAt>>

\* A command whose turn of the loop waits for a client whose handler is
\* waiting for the registry: the handler would keep the client's write
\* lock while it takes the write lock on clients.
hanndle_command_visit_waits(c) ==
    /\ server = "registry"
    /\ cmd.pc = "iter"
    /\ c \in cmd.todo
    /\ hpc[c] # "remove"
    /\ cmd' = [cmd EXCEPT
                 !.todo = @ \ {c},
                 !.names = IF username[c] # None
                           THEN @ \cup {<<c, username[c]>>} ELSE @]
    /\ UNCHANGED <<server, page, app, bus, frames, hV, username, pos, sock,
                   inV, fwV,
                   clients, outq, txpc, removes, nbad, joinedAt>>

\* hanndle_command: one turn of the loop: c.read().await.username
hanndle_command_visit(c) ==
    /\ server = "registry"
    /\ cmd.pc = "iter"
    /\ c \in cmd.todo
    /\ cmd' = [cmd EXCEPT
                 !.todo = @ \ {c},
                 !.names = IF username[c] # None
                           THEN @ \cup {<<c, username[c]>>} ELSE @]
    /\ UNCHANGED <<server, page, app, bus, frames, hV, username, pos, sock,
                   inV, fwV,
                   clients, outq, txpc, removes, nbad, joinedAt>>

\* hanndle_command: the loop is over, the Notification is built and the
\* read lock is released.
hanndle_command_return ==
    /\ server = "registry"
    /\ cmd.pc = "iter"
    /\ cmd.todo = {}
    /\ cmd' = [cmd EXCEPT !.pc = "done"]
    /\ UNCHANGED <<server, page, app, bus, frames, hV, username, pos, sock,
                   inV, fwV,
                   clients, outq, txpc, removes, nbad, joinedAt>>

\* handle_socket after the select!: the Disconnection of a client with a
\* username, under the client's write lock.  The client whose command runs
\* is busy with it.
connected_leave(c) ==
    /\ server = "registry"
    /\ hpc[c] = "select"
    /\ ~(cmd.pc = "iter" /\ cmd.by = c)
    /\ hname' = [hname EXCEPT ![c] = username[c]]
    /\ bus' = IF username[c] # None
              THEN Append(bus, BroadcastEvent("Leave", None, username[c], c))
              ELSE bus
    /\ hpc' = [hpc EXCEPT ![c] = "remove"]
    /\ UNCHANGED <<server, page, app, frames, username, pos, sock, inV, fwV,
                   regV, nbad,
                   joinedAt>>

\* handle_socket: clients.write().await.remove(&uuid); the write lock
\* waits for the command's read lock.
connected_remove(c) ==
    /\ server = "registry"
    /\ cmd.pc # "iter"
    /\ hpc[c] = "remove"
    /\ clients' = clients \ {c}
    /\ removes' = [removes EXCEPT ![c] = @ + 1]
    /\ hpc' = [hpc EXCEPT ![c] = "done"]
    /\ UNCHANGED <<server, page, app, bus, frames, hname, username, pos,
                   sock, inV, fwV,
                   outq, txpc, cmd, nbad, joinedAt>>

NextConnected ==
    \/ \E c \in Uuids :
        \/ connected_insert(c)
        \/ \E name \in Texts : connected_connect(c, name)
        \/ hanndle_command_lock(c)
        \/ hanndle_command_visit(c)
        \/ connected_leave(c)
        \/ connected_remove(c)
    \/ hanndle_command_return

SpecConnected == InitConnected /\ [][NextConnected]_vars

\* The teardown of a connection under fair scheduling, in the canonical
\* server and in the registry server at the grain of its locks: the
\* runtime runs a handler that is ready, the turns of the command's loop
\* and its return, and grants a lock that stays free to a task that waits
\* for it.  The arrival of frames and the end of a connection are the
\* environment's and are not fair.
FairTeardown ==
    /\ InitCanon \/ InitConnected
    /\ [][NextCanon \/ NextConnected]_vars
    /\ \A s \in Sessions :
        /\ WF_vars(handle_socket_select(s))
        /\ WF_vars(handle_socket_read(s))
        /\ WF_vars(handle_socket_leave(s))
    /\ \A c \in Uuids :
        /\ WF_vars(hanndle_command_visit(c))
        /\ WF_vars(connected_remove(c))
    /\ WF_vars(hanndle_command_return)

\* ==================================================== browser client
\* src/index: the yew component Content and its WebSocketService.  The
\* channel between them is futures::channel::mpsc::channel(512): with its
\* one sender it takes a call while fewer than 512 + 1 are queued.
ChannelBuffer == 1      \* buffer of the channel, scaled down from 512
MaxSubmits == 4         \* Message::Send updates followed

\* What the input field can hold when the user submits.
Values == Texts \cup {""}

ServerCall(call, arg) == [call |-> call, arg |-> arg]

\* Sender::try_send: Ok while the channel has room, else Err(full).  The
\* receiver lives as long as the writing task, which never ends.
try_send_ok(tx) == Len(tx) < ChannelBuffer + 1

InitIndex ==
    /\ server = "registry"
    /\ bus = <<>>
    /\ frames = 0
    /\ hpc = [s \in Sessions |-> "idle"]
    /\ hname = [s \in Sessions |-> None]
    /\ username = [s \in Sessions |-> None]
    /\ pos = [s \in Sessions |-> 0]
    /\ sock = [s \in Sessions |-> <<>>]
    /\ inpc = [s \in Sessions |-> "off"]
    /\ inab = [s \in Sessions |-> FALSE]
    /\ inmsg = [s \in Sessions |-> ""]
    /\ inpay = [s \in Sessions |-> NoPay]
    /\ fwpc = [s \in Sessions |-> "off"]
    /\ fwab = [s \in Sessions |-> FALSE]
    /\ fwmsg = [s \in Sessions |-> 0]
    /\ counter = [s \in Sessions |-> 0]
    /\ wfail = [s \in Sessions |-> FALSE]
    /\ clients = {}
    /\ outq = [s \in Sessions |-> <<>>]
    /\ txpc = [s \in Sessions |-> "off"]
    /\ removes = [s \in Sessions |-> 0]
    /\ cmd = NoCmd
    /\ nbad = [s \in Sessions |-> 0]
    /\ joinedAt = [s \in Sessions |-> 0]
    /\ page = [s \in Sessions |-> 0]
    /\ app = NoApp

\* What the client's actions leave alone: the servers.
srvV == <<server, bus, frames, hV, username, pos, sock, inV, fwV, regV, nbad,
          joinedAt, page>>

\* A Content whose channel makes room for a new call by dropping the
\* oldest call queued.
Content_update_Send_drops_oldest(value) ==
    /\ app.submits < MaxSubmits
    /\ LET call == IF app.username = None
                   THEN ServerCall("connect", value)
                   ELSE ServerCall("send", value)
       IN  app' = IF value = ""
                  THEN [app EXCEPT !.submits = @ + 1]
                  ELSE [app EXCEPT
                          !.submits = @ + 1,
                          !.username = IF @ = None THEN value ELSE @,
                          !.tx = IF try_send_ok(app.tx) THEN Append(@, call)
                                 ELSE Append(Tail(@), call)]
    /\ UNCHANGED srvV

\* Content::update, Message::Send: an empty input is ignored; without a
\* username the input becomes the username and the call is a Connect,
\* else the call is a Send; then wss.tx.try_send(call), whose Err is
\* logged and shown.
Content_update_Send(value) ==
    /\ app.submits < MaxSubmits
    /\ LET call == IF app.username = None
                   THEN ServerCall("connect", value)
                   ELSE ServerCall("send", value)
       IN  app' = IF value = ""
                  THEN [app EXCEPT !.submits = @ + 1]
                  ELSE [app EXCEPT
                          !.submits = @ + 1,
                          !.username = IF @ = None THEN value ELSE @,
                          !.tx = IF try_send_ok(app.tx) THEN Append(@, call) ELSE @,
                          !.failed = IF try_send_ok(app.tx) THEN @ ELSE @ + 1]
    /\ UNCHANGED srvV

\* WebSocketService::new, the task that reads the channel: rx.next().await
\* yields the oldest call queued, which is turned into JSON text.
WebSocketService_rx_next ==
    /\ app.call = NoApp.call
    /\ app.tx # <<>>
    /\ app' = [app EXCEPT !.call = Head(app.tx), !.tx = Tail(@),
                          !.handed = Append(@, Head(app.tx))]
    /\ UNCHANGED srvV

\* The same task: ws_tx.send(Message::Text(message)).await.  The send
\* waits while the websocket is connecting; on an open websocket the text
\* is written, on a closed one it is not, and an Err is only logged.
WebSocketService_ws_tx_send ==
    /\ app.call # NoApp.call
    /\ app.ws # "connecting"
    /\ app' = [app EXCEPT !.call = NoApp.call,
                          !.sent = IF app.ws = "open" THEN Append(@, app.call) ELSE @]
    /\ UNCHANGED srvV

\* The websocket opened by WebSocket::open becomes connected.
WebSocket_open ==
    /\ app.ws = "connecting"
    /\ app' = [app EXCEPT !.ws = "open"]
    /\ UNCHANGED srvV

\* The websocket is closed, by the server or by a failure.
WebSocket_close ==
    /\ app.ws \in {"connecting", "open"}
    /\ app' = [app EXCEPT !.ws = "closed"]
    /\ UNCHANGED srvV

NextIndex ==
    \/ \E value \in Values : Content_update_Send(value)
    \/ WebSocketService_rx_next
    \/ WebSocketService_ws_tx_send
    \/ WebSocket_open
    \/ WebSocket_close

\* The client under fair scheduling of the task that reads the channel:
\* spawn_local runs it whenever it can go on.
FairIndex ==
    /\ InitIndex
    /\ [][NextIndex]_vars
    /\ WF_vars(WebSocketService_rx_next)
    /\ WF_vars(WebSocketService_ws_tx_send)

\* ================================================================ claims
\* The events of a kind that session s has caused on the bus.
Published(s, kind) ==
    {i \in DOMAIN bus : bus[i].src = s /\ bus[i].event = kind}

\* The events (by their index in bus) the canonical forwarder of s has
\* written to the transport.
Delivered(s) == {sock[s][k].seq : k \in DOMAIN sock[s]}

\* ---------------------------------------------------------------- C1
\* C1: in the canonical server the forwarder of a session never writes an
\* event to the session's transport while the session's username is None:
\* every step that changes what has been written to the transport of s is
\* taken in a state where username[s] is set.
C1_NoWriteWhileAnonymous ==
    [][\A s \in Sessions :
          (server = "canon" /\ sock'[s] # sock[s]) => username[s] # None]_vars

\* An anonymous session's forwarder holds an event that has been written
\* to the transport of another session.
C1_Witness ==
    \E s, t \in Sessions :
        /\ server = "canon"
        /\ fwpc[s] = "read"
        /\ username[s] = None
        /\ fwmsg[s] \in Delivered(t)

\* ---------------------------------------------------------------- C2
\* C2: for every session there is at most one Join event, there is one
\* once its name is set and the inbound task is back at the head of its
\* loop, none while it has no name, and every Message of the session comes
\* after its Join on the bus.
C2_OneJoinBeforeMessages ==
    \A s \in Sessions :
        /\ Cardinality(Published(s, "Join")) <= 1
        /\ username[s] = None => Published(s, "Join") = {}
        /\ (username[s] # None /\ inpc[s] \notin {"send"})
              => Published(s, "Join") # {}
        /\ \A i \in Published(s, "Message") :
              \E j \in Published(s, "Join") : j < i

C4_TeardownOnce ==
    \A s \in Sessions :
        /\ Cardinality(Published(s, "Leave")) <= 1
        /\ removes[s] <= 1
        /\ hpc[s] # "done" => removes[s] = 0
        /\ (hpc[s] = "done" /\ server = "canon") =>
              /\ inpc[s] \in {"done", "dead", "write", "send"}
              /\ fwpc[s] \in {"done", "dead", "read"}

\* Both tasks of a named session of the canonical server had finished by
\* themselves, and its teardown is done.
C4_Witness ==
    \E s \in Sessions :
        /\ server = "canon"
        /\ hpc[s] = "done"
        /\ inpc[s] = "done" /\ fwpc[s] = "done"
        /\ Published(s, "Leave") # {}

\* ---------------------------------------------------------------- C5
\* C5: in the registry server a session has an entry in clients exactly
\* from the start of its handler to the end of its teardown: the entry is
\* there while any of the session's tasks runs, and it is not there once
\* the teardown is done.
C5_RegistryEntryWhileLive ==
    server = "registry" =>
        \A s \in Sessions :
            /\ s \in clients <=> hpc[s] \in {"select", "leave", "remove"}
            /\ (txpc[s] = "run" \/ fwpc[s] = "recv" \/ inpc[s] = "next")
                  => s \in clients
            /\ hpc[s] = "done" => s \notin clients

\* One session's teardown is done and its entry is gone, while another
\* session, whose tasks run, has its entry.
C5_Witness ==
    \E s, t \in Sessions :
        /\ server = "registry"
        /\ hpc[s] = "done" /\ removes[s] = 1 /\ s \notin clients
        /\ inpc[t] = "next" /\ t \in clients

\* ---------------------------------------------------------------- C6
\* C6: a session never receives an event that was sent on the bus while
\* the session's username was still None.
C6_NothingFromBeforeTheName ==
    server = "canon" =>
        \A s \in Sessions : \A k \in DOMAIN sock[s] : ~sock[s][k].early

\* ---------------------------------------------------------------- C7
\* The most events the bus can hold: one per frame and one Leave per
\* session.
MaxEvents == MaxFrames + Cardinality(Sessions)

\* Event i is on the bus and the live forwarder of s has not dealt with it
\* yet: it is unread, or it is the event in the forwarder's hand.
Pending(s, i) ==
    /\ i \in DOMAIN bus
    /\ pos[s] >= 1
    /\ pos[s] <= i \/ fwmsg[s] = i

\* C7: in the canonical server, under fair scheduling, a Join or Message
\* event that is pending for a session which has its name is in the end
\* written to that session's transport, the publisher's own included,
\* unless the session's forwarder ends first (overrun, or the session
\* ends) or a write to the transport fails; an event that the forwarder
\* deals with while the session has its name is written unless the write
\* fails; and a Message put on the bus by s has the name of s as
\* sender and the text of the frame as content.
C7_NamedSessionsGetEveryEvent ==
    /\ \A s \in Sessions : \A i \in 1..MaxEvents :
          (Pending(s, i) /\ bus[i].event \in {"Join", "Message"}
              /\ username[s] # None)
            ~> (i \in Delivered(s) \/ fwpc[s] \in {"done", "dead"} \/ wfail[s])
    /\ [][\A s \in Sessions :
            /\ (fwpc[s] = "read" /\ fwpc'[s] # "read" /\ username[s] # None)
                  => \/ fwmsg[s] \in {sock'[s][k].seq : k \in DOMAIN sock'[s]}
                     \/ wfail'[s]
            /\ (inpc[s] = "send" /\ inpc'[s] # "send"
                  /\ inpay[s].event = "Message")
                  => /\ bus' = Append(bus, inpay[s])
                     /\ inpay[s].sender = username[s]
                     /\ inpay[s].sender # None
                     /\ inpay[s].content = inmsg[s]
                     /\ inpay[s].src = s]_vars

\* A session has been written the Message it sent itself, after its own
\* Join.
C7_Witness ==
    \E s \in Sessions : \E i \in Published(s, "Message") :
        /\ server = "canon"
        /\ i \in Delivered(s)
        /\ \E j \in Published(s, "Join") : j \in Delivered(s)

\* ---------------------------------------------------------------- C8
\* Session a is the only session that has connected so far.
Alone(a) == \A t \in Sessions \ {a} : hpc[t] = "idle"

\* C8 as the specification states it: a session that is the only one
\* connected and has sent at most its first frame has been written no
\* event.
C8_NoEventForTheFirstFrame ==
    server = "canon" =>
        \A a \in Sessions : (Alone(a) /\ frames <= 1) => sock[a] = <<>>

\* C8, amended: a session that is the only one connected and has sent its
\* first frame, declaring its name, is written exactly one event once its
\* tasks are at rest (if the write did not fail): its own Join, with its name as content, at the index
\* that follows the welcome messages.  And a Join that the live forwarder
\* of a session has dealt with, and that was sent no earlier than that
\* session's own Join, has been written to that session: to the session
\* that joined and to those named before it.
C8_OwnJoinIsDelivered ==
    server = "canon" =>
        /\ \A a \in Sessions :
              (/\ Alone(a) /\ frames = 1 /\ username[a] # None
               /\ hpc[a] = "select" /\ inpc[a] = "next"
               /\ fwpc[a] = "recv" /\ Unread(a) = 0 /\ ~wfail[a])
              => /\ Len(sock[a]) = 1
                 /\ sock[a][1].index = WELCOME_MESSAGES_len
                 /\ bus[sock[a][1].seq] =
                        BroadcastEvent("Join", None, username[a], a)
        /\ \A s \in Sessions : \A j \in Published(s, "Join") :
              \A i \in DOMAIN bus :
                  (/\ bus[i].event = "Join" /\ j <= i
                   /\ fwpc[s] = "recv" /\ pos[s] > i /\ ~wfail[s])
                  => i \in Delivered(s)

\* Both sessions have joined, the first was written its own Join and the
\* Join of the second, and the second was written its own Join.
C8_Witness ==
    \E a, b \in Sessions :
        /\ server = "canon"
        /\ a # b
        /\ \E i \in Published(a, "Join") : \E j \in Published(b, "Join") :
              /\ i < j
              /\ sock[a] # <<>> /\ sock[a][1].seq = i
              /\ j \in Delivered(a)
              /\ j \in Delivered(b)

\* ---------------------------------------------------------------- C9
\* C9: a frame that does not decode (nbad counts them per session) leaves
\* the inbound loop of its session running and changes neither the
\* session's name, nor the bus, nor the handler.
C9_BadFrameIsSkipped ==
    [][\A s \in Sessions :
          nbad'[s] > nbad[s] =>
              /\ inpc'[s] = "next"
              /\ username' = username
              /\ bus' = bus
              /\ hpc' = hpc]_vars

\* ---------------------------------------------------------------- C10
\* The Error events sent to session s: in the registry server the Error
\* calls put on its outbound queue or written already, in the canonical
\* server the Error events written to its transport.
ErrorsSent(s) ==
    IF server = "registry"
    THEN Cardinality({k \in DOMAIN outq[s] : outq[s][k].t = "Error"})
         + Cardinality({k \in DOMAIN sock[s] : sock[s][k].t = "Error"})
    ELSE Cardinality({k \in DOMAIN sock[s] : bus[sock[s][k].seq].event = "Error"})

\* C10: a frame that does not parse makes the server send one Error event
\* to the session that sent it, and nothing to any other session: nothing
\* is put on the bus and the other sessions' queues and transports stay as
\* they are.
C10_ParseFailureAnswered ==
    [][\A s \in Sessions :
          nbad'[s] > nbad[s] =>
              /\ ErrorsSent(s)' = ErrorsSent(s) + 1
              /\ bus' = bus
              /\ \A t \in Sessions \ {s} :
                    sock'[t] = sock[t] /\ outq'[t] = outq[t]]_vars

\* ---------------------------------------------------------------- C11
\* str::trim on the texts of the model.
trim(text) == IF text = " " THEN "" ELSE text

\* C11: a text that is empty after trimming never becomes a session's
\* username and is never the content of an event on the bus.
C11_BlankTextRejected ==
    server = "canon" =>
        /\ \A s \in Sessions : username[s] # None => trim(username[s]) # ""
        /\ \A i \in DOMAIN bus : trim(bus[i].content) # ""

\* ---------------------------------------------------------------- C12
\* C12: a session's username, once set, never changes and never goes back
\* to None, whatever frames follow; and it is None before the session's
\* first frame is taken.
C12_NameSetOnce ==
    /\ [][\A s \in DOMAIN username :
            username[s] # None => username'[s] = username[s]]_vars
    /\ [](\A s \in DOMAIN username :
            hpc[s] \in {"idle", "upgrade"} => username[s] = None)

\* ---------------------------------------------------------------- C13
\* C13: in the canonical server the first non-empty text of a session is
\* taken as its name and sent on the bus as one Join with no sender and the
\* text as content, never as a Message; every later non-empty text is sent
\* as one Message with the session's name as sender and the text as
\* content.  Step by step: a text is taken to the naming branch exactly
\* when the session has no name, and to the message branch with the
\* Message payload when it has one; the naming branch sets the name to the
\* text and builds the Join; the payload built is the event appended to the
\* bus; and nothing else appends a Join or a Message.
C13_FirstTextIsTheName ==
    /\ [][server = "canon" => \A s \in Sessions :
            /\ (inpc[s] = "next" /\ inpc'[s] = "write") =>
                  /\ username[s] = None
                  /\ Published(s, "Join") = {}
                  /\ inmsg'[s] # ""
            /\ (inpc[s] = "next" /\ inpc'[s] = "send") =>
                  /\ username[s] # None
                  /\ inmsg'[s] # ""
                  /\ inpay'[s] =
                        BroadcastEvent("Message", username[s], inmsg'[s], s)
            /\ (inpc[s] = "write" /\ inpc'[s] # "write") =>
                  /\ username'[s] = inmsg[s]
                  /\ inpay'[s] = BroadcastEvent("Join", None, inmsg[s], s)
                  /\ inpc'[s] = "send"
            /\ (inpc[s] = "send" /\ inpc'[s] # "send") =>
                  bus' = Append(bus, inpay[s])
            /\ (Len(bus') > Len(bus) /\ bus'[Len(bus')].src = s
                  /\ bus'[Len(bus')].event # "Leave") =>
                  inpc[s] = "send" /\ inpc'[s] # "send"]_vars
    /\ [](server = "canon" => \A s \in Sessions :
            /\ Cardinality(Published(s, "Join")) <= 1
            /\ \A i \in Published(s, "Join") :
                  /\ bus[i].sender = None
                  /\ bus[i].content = username[s]
                  /\ \A j \in Published(s, "Message") :
                        i < j /\ bus[j].sender = username[s])

\* A session of the canonical server has sent two texts: the first is on
\* the bus as its Join, the second as its Message.
C13_Witness ==
    \E s \in Sessions :
        /\ server = "canon"
        /\ \E i \in Published(s, "Join") : \E j \in Published(s, "Message") :
              /\ bus[i].content = username[s]
              /\ bus[j].content # username[s]

\* ---------------------------------------------------------------- C14
\* C14: the indexes given to the renderer for the events written to one
\* session's transport are strictly increasing in the order of writing,
\* and start after the welcome messages.
C14_IndexesIncrease ==
    server = "canon" =>
        \A s \in Sessions : \A k, l \in DOMAIN sock[s] :
            /\ sock[s][k].index >= WELCOME_MESSAGES_len
            /\ k < l => sock[s][k].index < sock[s][l].index

\* A session has been written two events at least.
C14_Witness ==
    \E s \in Sessions : server = "canon" /\ Len(sock[s]) >= 2

\* ---------------------------------------------------------------- C15
\* The events held on behalf of session s: those its receiver can still
\* yield from the channel, which keeps Capacity events at most, and, in the
\* registry server, the events waiting in its outbound queue.
Buffered(s) ==
    (IF pos[s] = 0 THEN 0
     ELSE IF Unread(s) > Capacity THEN Capacity ELSE Unread(s))
    + Cardinality({k \in DOMAIN outq[s] : outq[s][k].t = "Event"})

\* C15: the events buffered for a subscriber, in the channel and in its
\* outbound queue together, never exceed the capacity of the channel.
C15_BoundedBacklog ==
    \A s \in Sessions : Buffered(s) <= Capacity

\* ---------------------------------------------------------------- C16
\* C16: an overrun is local to the subscriber and does not end it: the
\* forwarder of a session whose receiver is more than Capacity events
\* behind is not finished by its next step.
C16_OverrunKeepsForwarder ==
    [][\A s \in Sessions :
          (fwpc[s] = "recv" /\ Lagging(s)) => fwpc'[s] # "done"]_vars

\* ---------------------------------------------------------------- C17
\* C17: when the `connected` command returns, the names it has collected
\* are the named clients of the registry at one instant during the
\* command.
C17_ConsistentSnapshot ==
    cmd.pc = "done" => cmd.names \in cmd.snaps

\* ---------------------------------------------------------------- C18
\* Session s ends: its End of stream is taken, a write to its transport
\* fails, or its handler takes a step of the teardown.
Ends(s) ==
    \/ hpc'[s] # hpc[s] /\ hpc[s] \notin {"idle", "upgrade"}
    \/ inpc[s] = "next" /\ inpc'[s] = "done"
    \/ txpc[s] = "run" /\ txpc'[s] = "done"
    \/ wfail'[s] /\ ~wfail[s]

\* C18: a step in which one session fails or is torn down changes nothing
\* of another session: its registry entry, its name, its receiver, its
\* tasks and what is queued for it stay as they are, and its receiver is
\* not overrun by the step.
C18_FailureIsContained ==
    [][\A s \in Sessions : Ends(s) =>
          \A t \in Sessions \ {s} :
              /\ (t \in clients') = (t \in clients)
              /\ username'[t] = username[t]
              /\ pos'[t] = pos[t]
              /\ hpc'[t] = hpc[t]
              /\ inpc'[t] = inpc[t] /\ fwpc'[t] = fwpc[t] /\ txpc'[t] = txpc[t]
              /\ outq'[t] = outq[t] /\ sock'[t] = sock[t]
              /\ (fwpc[t] = "recv" /\ ~Lagging(t)) => ~Lagging(t)']_vars

\* ---------------------------------------------------------------- C19
\* C19: in the registry server, whenever the Leave of a session is on the
\* bus, the session has no entry in clients any more.
C19_RemovedBeforeLeave ==
    server = "registry" =>
        \A s \in Sessions : Published(s, "Leave") # {} => s \notin clients

\* ---------------------------------------------------------------- C20
\* C20: a failed write to a session's transport ends the task that writes
\* to it: the step in which a write of the canonical forwarder fails
\* leaves the forwarder finished.
C20_WriteFailureEndsTheWriter ==
    [][\A s \in Sessions :
          (wfail'[s] /\ ~wfail[s]) => fwpc'[s] \in {"done", "dead"}]_vars

\* ---------------------------------------------------------------- C21
\* C21: the events written to a session's transport are written in the
\* order in which they were published on the bus: a session's own Join and
\* Messages reach its own transport, and every other transport, in the
\* order of publication, and two sessions that are both written the same
\* two events are written them in the same relative order.
C21_DeliveredInPublicationOrder ==
    server = "canon" =>
        /\ \A s \in Sessions : \A k, l \in DOMAIN sock[s] :
               k < l => sock[s][k].seq < sock[s][l].seq
        /\ \A s, t \in Sessions :
               \A k, l \in DOMAIN sock[s] : \A m, n \in DOMAIN sock[t] :
                   (sock[s][k].seq = sock[t][m].seq /\ sock[s][l].seq = sock[t][n].seq)
                       => ((k < l) = (m < n))

\* Two sessions have both been written the same two events.
C21_Witness ==
    /\ server = "canon"
    /\ \E s, t \in Sessions :
           s # t /\ Cardinality(Delivered(s) \cap Delivered(t)) >= 2

\* ---------------------------------------------------------------- C22
\* C22: in the canonical server every Join and every Message of a session
\* is on the bus before the session's Leave, and a session whose Join is on
\* the bus has its Leave there once its handler has finished the teardown.
C22_NothingAfterOrWithoutLeave ==
    server = "canon" =>
        \A s \in Sessions :
            /\ \A i \in Published(s, "Join") \cup Published(s, "Message") :
                   \A j \in Published(s, "Leave") : i < j
            /\ (hpc[s] = "done" /\ Published(s, "Join") # {})
                   => Published(s, "Leave") # {}

\* ---------------------------------------------------------------- C23
\* The teardown of connection x has begun: in the canonical server one of
\* its tasks has finished while the handler is at the select!; in the
\* registry server its handler waits for the write lock on clients.
TeardownBegun(x) ==
    /\ x \in DOMAIN hpc
    /\ \/ /\ server = "canon"
          /\ hpc[x] = "select"
          /\ inpc[x] = "done" \/ fwpc[x] = "done"
       \/ /\ server = "registry"
          /\ hpc[x] = "remove"

\* C23: once a task of a connection has finished, the connection's
\* handler completes its teardown: it waits for ever neither for the tasks
\* it has aborted nor for a lock, also while the `connected` command or a
\* Connect call of another client runs.
C23_TeardownCompletes ==
    \A x \in Uuids :
        TeardownBegun(x) ~> (x \in DOMAIN hpc /\ hpc[x] = "done")

\* A handler waits for the write lock on clients while the command holds
\* the read lock and has that handler's client still to visit.
C23_Witness ==
    /\ server = "registry"
    /\ cmd.pc = "iter"
    /\ \E c \in DOMAIN hpc : hpc[c] = "remove" /\ c \in cmd.todo

\* ---------------------------------------------------------------- C24
\* The page's historyLength when the k-th frame written to connection s
\* arrives (index.rs: x-data, x-on:htmx:ws-after-message): it starts at
\* WELCOME_MESSAGES.len() when the page is loaded and goes up by one with
\* every frame the page receives, on whichever of its connections; it is
\* the id of the empty slot the page holds for the next frame.
historyLength(s, k) ==
    WELCOME_MESSAGES_len
    + (IF page[s] \in Sessions \ {s} THEN Len(sock[page[s]]) ELSE 0)
    + (k - 1)

\* C24: the k-th frame written to a connection (k counted from 0) has
\* index WELCOME_MESSAGES.len() + k, and that index is the id of the empty
\* slot the page holds when the frame arrives, also on a connection the
\* page opened after an earlier one was closed.
C24_IndexIsThePlaceholder ==
    server = "canon" =>
        \A s \in Sessions : \A k \in DOMAIN sock[s] :
            /\ sock[s][k].index = WELCOME_MESSAGES_len + (k - 1)
            /\ sock[s][k].index = historyLength(s, k)

\* ---------------------------------------------------------------- C25
\* The response to a Send of a client without a username.
NotConnected ==
    [t |-> "Error", seq |-> 0, text |-> "Client not connected with username"]

\* C25: in the registry server a Send of a session that has no username
\* is not broadcast: the step that takes such a frame puts nothing on the
\* bus, leaves every username and the registry as they are, and queues
\* the Error "Client not connected with username" for the session.
C25_SendWithoutNameIsRefused ==
    [][\A s \in Sessions : \A text \in Texts :
          (/\ username[s] = None
           /\ process_client_messages(s,
                  [kind |-> "Text", body |-> [shape |-> "send", message |-> text]]))
          => /\ bus' = bus
             /\ username' = username
             /\ clients' = clients
             /\ outq' = tx_send(s, NotConnected)]_vars

\* A session without a username has been written the Error of a refused
\* Send, and nothing is on the bus.
C25_Witness ==
    /\ server = "registry"
    /\ bus = <<>>
    /\ \E s \in Sessions :
           /\ username[s] = None
           /\ \E k \in DOMAIN sock[s] : sock[s][k] = NotConnected

\* ---------------------------------------------------------------- C26
\* The text frames the canonical inbound task rejects: those that do not
\* parse and those whose message is empty.
Rejected ==
    {f \in Frames :
        /\ f.kind = "Text"
        /\ LET m == from_str_WebsocketMessage(f.body) IN ~m.ok \/ m.message = ""}

\* C26: a rejected frame has no effect: the step of the canonical inbound
\* task that takes it publishes nothing, leaves the usernames, the
\* transports, the receivers, the handlers and the tasks of all sessions
\* as they are, and the task is at the head of its loop again.
C26_RejectedFrameHasNoEffect ==
    [][\A s \in Sessions :
          (server = "canon" /\ inpc[s] = "next" /\ frames' # frames) =>
              \A f \in Rejected :
                  socket_listen_next(s, f)
                  => /\ bus' = bus
                     /\ username' = username
                     /\ sock' = sock /\ pos' = pos
                     /\ hV' = hV /\ inV' = inV /\ fwV' = fwV
                     /\ joinedAt' = joinedAt /\ page' = page]_vars

\* A session with a name has had a frame rejected and waits for the next
\* frame, and its name is the only event on the bus.
C26_Witness ==
    /\ server = "canon"
    /\ \E s \in Sessions :
           /\ username[s] # None
           /\ nbad[s] > 0
           /\ inpc[s] = "next"
           /\ Len(bus) = 1 /\ Published(s, "Join") = {1}

\* ---------------------------------------------------------------- C27
\* The calls the channel has accepted and not lost, oldest first: those
\* the writing task has taken, then those still queued.
Accepted == app.handed \o app.tx

\* C27: in the browser client the first call written to the websocket is
\* a Connect, so that every Send is written after a Connect, also when a
\* try_send has failed; and while the client's username is set, a Connect
\* with that username is the first call the channel accepted, the first
\* the writing task is handed, and it is handed to it in the end.
C27_ConnectGoesFirst ==
    /\ [](/\ app.sent # <<>> => app.sent[1].call = "connect"
          /\ app.handed # <<>> => app.handed[1].call = "connect"
          /\ app.username # None =>
                /\ Accepted # <<>>
                /\ Accepted[1] = ServerCall("connect", app.username))
    /\ (app.username # None) ~>
          (app.handed # <<>> /\ app.handed[1] = ServerCall("connect", app.username))

\* A try_send has failed, and a Connect and then a Send have been written
\* to the websocket.
C27_Witness ==
    /\ app.failed > 0
    /\ Len(app.sent) >= 2
    /\ app.sent[1].call = "connect"
    /\ app.sent[2].call = "send"

\* ---------------------------------------------------------------- C28
\* Everything queued for the transport of session s so far that was not
\* lost with the queue: what has been written, then what still waits.
Outbound(s) == sock[s] \o outq[s]

\* C28: in the registry server the first item written to a client's
\* transport, and the first queued for it, is the client's Uuid payload,
\* and it is the only one: no event and no response comes before it.
C28_UuidComesFirst ==
    server = "registry" =>
        \A s \in Sessions : \A k \in DOMAIN Outbound(s) :
            (Outbound(s)[k].t = "Uuid") = (k = 1)

\* A client has been written its Uuid payload, then a response to a call
\* of its own and an event from the bus.
C28_Witness ==
    /\ server = "registry"
    /\ \E s \in Sessions :
           /\ Len(sock[s]) >= 3
           /\ sock[s][1].t = "Uuid"
           /\ \E k, l \in DOMAIN sock[s] :
                  sock[s][k].t = "Event" /\ sock[s][l].t \in {"Ok", "Error", "Notification"}

====
